---- MODULE Spec2Model ----
(***************************************************************************)
(* cocoTEMU bridges: QemuBridge (memory protocol, single-shot) and         *)
(* GpioBridge (signal protocol, persistent).  Each bridge is a cocotb      *)
(* poll loop on the simulation thread, one OS thread that accepts and      *)
(* serves a client, and stop(), which any thread may call.  The threads    *)
(* share Python queue.Queue objects (unbounded FIFO) and plain attributes; *)
(* every step below is one access to that shared state.                    *)
(***************************************************************************)
EXTENDS Integers, Sequences, FiniteSets, TLC

\* ---------------------------------------------------------------- bounds
MaxVal == 1          \* register / signal values are 0..MaxVal
MaxReqs == 2         \* frames the memory clients send in a run
MaxStops == 1        \* calls of stop() on the memory bridge
MaxClients == 2      \* client connections to the memory bridge
GMaxStops == 1       \* calls of stop() on the signal bridge
MaxNotify == 1       \* the device changes no output while this many notifications wait

Vals == 0..MaxVal
NoReq == [op |-> "NONE", val |-> 0, id |-> 0]      \* a local not yet assigned
NoRes == [val |-> 0, id |-> 0]
\* The None that stop() and _recv_loop put on the request queue.
Sentinel == [op |-> "SENTINEL", val |-> 0, id |-> 0]
IsSentinel(r) == r.op = "SENTINEL"

\* ------------------------------------------------------------- variables
VARIABLES
  \* QemuBridge
  q_running,     \* self._running
  q_req,         \* self._req_queue
  q_resp,        \* self._resp_queue
  q_server,      \* self._server_sock: "none" | "open" | "closed"
  q_sim,         \* position of start()'s poll loop
  q_cur,         \* the request start() is executing (local req)
  q_inflight,    \* ids of the device operations begun and not yet finished
  q_reg,         \* the device register ExecuteMemoryOp reads and writes
  q_rt,          \* position of the _recv_loop thread
  q_wreq,        \* _handle_client's local req
  q_wres,        \* _handle_client's local result
  q_msg_count,   \* _handle_client's msg_count
  q_idle,        \* _handle_client's idle_timeouts
  q_conn,        \* the accepted connection: "none" | "open" | "peer_closed" | "closed"
  q_pending,     \* clients connected and not yet accepted (listen backlog)
  q_nconn,       \* clients that have connected so far
  q_accepts,     \* connections accept() has returned
  q_sock,        \* bytes the client has sent and the worker has not read: whole frames
  q_sent,        \* replies sendall() has written to the connection
  q_nsent,       \* frames the clients have sent so far
  q_stop,        \* position of a stop() call in progress
  q_stops        \* stop() calls begun so far

qvars == <<q_running, q_req, q_resp, q_server, q_sim, q_cur, q_inflight, q_reg,
           q_rt, q_wreq, q_wres, q_msg_count, q_idle, q_conn, q_pending, q_nconn,
           q_accepts, q_sock, q_sent, q_nsent, q_stop, q_stops>>

\* GpioBridge
VARIABLES
  g_running,     \* self._running
  g_req,         \* self._req_queue
  g_resp,        \* self._resp_queue
  g_notify,      \* self._notify_queue
  g_subs,        \* self._subscriptions
  g_last,        \* self._last_values: index -> value, None where there is no entry
  g_sig,         \* sig.handle.value of every configured signal
  g_server,      \* self._server_sock: "none" | "open" | "closed"
  g_sim,         \* position of start()'s poll loop, _sample_outputs included
  g_todo,        \* _sample_outputs: the indices of list(self._subscriptions) still to visit
  g_cur,         \* _sample_outputs' local cur
  g_prev,        \* _sample_outputs' local prev
  g_rt,          \* position of the _recv_loop thread
  g_wres,        \* _handle_client's local resp
  g_conn,        \* the accepted connection: "none" | "open" | "peer_closed" | "closed"
  g_cid,         \* the accepted connection: 0 none yet, 1 the first client's, 2 a later one's
  g_pending,     \* clients connected and not yet accepted: listen(1) holds one
  g_sock,        \* messages the client has sent and the worker has not read
  g_stop,        \* position of a stop() call in progress
  g_stops,       \* stop() calls begun so far
  g_fresh,       \* indices subscribed whose value _sample_outputs has not read since
  g_subbed       \* indices the accepted connection's client has subscribed with success

gvars == <<g_running, g_req, g_resp, g_notify, g_subs, g_last, g_sig, g_server,
           g_sim, g_todo, g_cur, g_prev, g_rt, g_wres, g_conn, g_cid,
           g_pending, g_sock, g_stop, g_stops,
           g_fresh, g_subbed>>

\* One function of the code applied to one input, for the properties of the
\* conversions, which do not depend on how the threads interleave.
VARIABLES
  p_fn,          \* the function applied: "none" while a bridge runs
  p_in,          \* its arguments, and its locals while it runs
  p_out          \* what it has returned or raised: "none" until then

\* The memory worker's read of one connection, _recv_exact under its caller's
\* loop, with the socket's behaviour left open: which bytes arrive together,
\* when a receive times out, when the peer closes, when the flag goes down.
VARIABLES
  r_pc,          \* position: "none" while a bridge runs, else "call", "loop",
                 \*   "recv", "ret" or "done"
  r_buf,         \* _recv_exact's buf
  r_stream,      \* the bytes the peer has yet to send
  r_rcvd,        \* every byte sock.recv has handed over, in order
  r_done,        \* the messages _recv_exact has returned, end to end
  r_ret,         \* what _recv_exact returned last
  r_ev,          \* how the last sock.recv ended: "chunk", "timeout", "closed"
  r_idle,        \* _handle_client's idle_timeouts
  r_msg_count,   \* _handle_client's msg_count
  r_run          \* self._running

rvars == <<r_pc, r_buf, r_stream, r_rcvd, r_done, r_ret, r_ev, r_idle,
           r_msg_count, r_run>>

pvars == <<p_fn, p_in, p_out, rvars>>

vars == <<qvars, gvars, pvars>>

\* ------------------------------------------------------------------ Init
QInit ==
  /\ q_running = FALSE
  /\ q_req = <<>>
  /\ q_resp = <<>>
  /\ q_server = "none"
  /\ q_sim = "init"
  /\ q_cur = NoReq
  /\ q_inflight = {}
  /\ q_reg = 0
  /\ q_rt = "init"
  /\ q_wreq = NoReq
  /\ q_wres = NoRes
  /\ q_msg_count = 0
  /\ q_idle = 0
  /\ q_conn = "none"
  /\ q_pending = 0
  /\ q_nconn = 0
  /\ q_accepts = 0
  /\ q_sock = <<>>
  /\ q_sent = <<>>
  /\ q_nsent = 0
  /\ q_stop = "idle"
  /\ q_stops = 0

\* =========================================================== QemuBridge
\* What the memory client can put on the wire: an 18-byte frame that decodes to
\* a READ or a WRITE request, or one whose opcode byte is neither 0 nor 1.  The
\* id numbers the frames in the order they were sent; it is not on the wire.
BadFrame == [op |-> "BAD", val |-> 0, id |-> 0]

QFrames(n) ==
  {[op |-> "READ", val |-> 0, id |-> n]}
    \cup {[op |-> "WRITE", val |-> v, id |-> n] : v \in Vals}
    \cup {[op |-> "BAD", val |-> 0, id |-> n]}

\* CocotemuAxiMaster.execute: a read returns the register, a write returns 0.
AxiResult(req, reg) == IF req.op = "READ" THEN reg ELSE 0

\* AxiEffect as it would be if a write had not reached the device when the
\* handler returns.
AxiEffectLost(req, reg) == reg

AxiEffect(req, reg) == IF req.op = "WRITE" THEN req.val ELSE reg

\* What _handle_client sends for a result: the value for a READ, WRITE_ACK else.
QReply(req, res) ==
  IF req.op = "READ" THEN [kind |-> "data", val |-> res.val, id |-> res.id]
                     ELSE [kind |-> "ack", val |-> 1, id |-> res.id]

MAX_IDLE == 3

qShared == <<q_running, q_req, q_resp, q_server>>
qSim == <<q_sim, q_cur, q_inflight, q_reg>>
qWorker == <<q_rt, q_wreq, q_wres, q_msg_count, q_idle>>
qNet == <<q_conn, q_pending, q_nconn, q_accepts, q_sock, q_sent, q_nsent>>
qStop == <<q_stop, q_stops>>

\* start(): set the flag, start the _recv_loop thread, enter the poll loop.
QStart ==
  /\ q_sim = "init"
  /\ q_running' = TRUE
  /\ q_sim' = "loop"
  /\ q_rt' = "setup"
  /\ UNCHANGED <<q_req, q_resp, q_server, q_cur, q_inflight, q_reg, q_wreq, q_wres,
                 q_msg_count, q_idle, qNet, qStop, gvars, pvars>>

\* start(): `while self._running`.
QSimLoop ==
  /\ q_sim = "loop"
  /\ q_sim' = IF q_running THEN "get" ELSE "exit"
  /\ UNCHANGED <<qShared, q_cur, q_inflight, q_reg, qWorker, qNet, qStop, gvars, pvars>>

\* QSimGet as it would be if the loop started the device operation as a task of
\* its own (cocotb.start_soon) and answered at once, instead of awaiting it.
QSimGetDetached ==
  /\ q_sim = "get"
  /\ IF q_req = <<>>
       THEN /\ q_sim' = "timer"
            /\ UNCHANGED <<q_req, q_resp, q_cur, q_inflight>>
       ELSE IF IsSentinel(Head(q_req))
         THEN /\ q_req' = Tail(q_req)
              /\ q_sim' = "exit"
              /\ UNCHANGED <<q_resp, q_cur, q_inflight>>
         ELSE /\ q_req' = Tail(q_req)
              /\ q_cur' = Head(q_req)
              /\ q_inflight' = q_inflight \cup {Head(q_req).id}
              /\ q_resp' = Append(q_resp, [val |-> 0, id |-> Head(q_req).id])
              /\ q_sim' = "loop"
  /\ UNCHANGED <<q_running, q_server, q_reg, qWorker, qNet, qStop, gvars, pvars>>

\* start(): get_nowait(); Empty -> await Timer; None -> break; a request ->
\* the device operation begins (await self._axi_handler(req)).
QSimGet ==
  /\ q_sim = "get"
  /\ IF q_req = <<>>
       THEN /\ q_sim' = "timer"
            /\ UNCHANGED <<q_req, q_cur, q_inflight>>
       ELSE IF IsSentinel(Head(q_req))
         THEN /\ q_req' = Tail(q_req)
              /\ q_sim' = "exit"
              /\ UNCHANGED <<q_cur, q_inflight>>
         ELSE /\ q_req' = Tail(q_req)
              /\ q_cur' = Head(q_req)
              /\ q_inflight' = q_inflight \cup {Head(q_req).id}
              /\ q_sim' = "axi"
  /\ UNCHANGED <<q_running, q_resp, q_server, q_reg, qWorker, qNet, qStop, gvars, pvars>>

\* start(): the Timer of an idle iteration fires.
QSimTimer ==
  /\ q_sim = "timer"
  /\ q_sim' = "loop"
  /\ UNCHANGED <<qShared, q_cur, q_inflight, q_reg, qWorker, qNet, qStop, gvars, pvars>>

\* QAxiDone as it would be if the loop put the result twice.
QAxiDoneDup ==
  /\ q_sim = "axi"
  /\ q_reg' = AxiEffect(q_cur, q_reg)
  /\ q_resp' = q_resp \o << [val |-> AxiResult(q_cur, q_reg), id |-> q_cur.id],
                            [val |-> AxiResult(q_cur, q_reg), id |-> q_cur.id] >>
  /\ q_inflight' = q_inflight \ {q_cur.id}
  /\ q_cur' = NoReq
  /\ q_sim' = "loop"
  /\ UNCHANGED <<q_running, q_req, q_server, qWorker, qNet, qStop, gvars, pvars>>

\* start(): the awaited device operation completes and its result is put on
\* the response queue; the loop goes back to its flag test.
QAxiDone ==
  /\ q_sim = "axi"
  /\ q_reg' = AxiEffect(q_cur, q_reg)
  /\ q_resp' = Append(q_resp, [val |-> AxiResult(q_cur, q_reg), id |-> q_cur.id])
  /\ q_inflight' = q_inflight \ {q_cur.id}
  /\ q_cur' = NoReq
  /\ q_sim' = "loop"
  /\ UNCHANGED <<q_running, q_req, q_server, qWorker, qNet, qStop, gvars, pvars>>

\* _recv_loop: bind and listen.
QRecvSetup ==
  /\ q_rt = "setup"
  /\ q_server' = "open"
  /\ q_rt' = "rl_loop"
  /\ UNCHANGED <<q_running, q_req, q_resp, qSim, q_wreq, q_wres, q_msg_count, q_idle,
                 qNet, qStop, gvars, pvars>>

\* _recv_loop: `while self._running`.
QRecvLoop ==
  /\ q_rt = "rl_loop"
  /\ q_rt' = IF q_running THEN "accept" ELSE "finally"
  /\ UNCHANGED <<qShared, qSim, q_wreq, q_wres, q_msg_count, q_idle, qNet, qStop,
                 gvars, pvars>>

\* _recv_loop: accept().  A closed listening socket raises OSError, which only
\* the finally clause handles; no waiting client is a timeout; else a
\* connection, and _handle_client starts with its counters at 0.
QAccept ==
  /\ q_rt = "accept"
  /\ IF q_server # "open"
       THEN /\ q_rt' = "finally"
            /\ UNCHANGED <<q_msg_count, q_idle, q_conn, q_pending, q_accepts>>
       ELSE IF q_pending = 0
         THEN /\ q_rt' = "rl_loop"
              /\ UNCHANGED <<q_msg_count, q_idle, q_conn, q_pending, q_accepts>>
         ELSE /\ q_pending' = q_pending - 1
              /\ q_accepts' = q_accepts + 1
              /\ q_conn' = "open"
              /\ q_msg_count' = 0
              /\ q_idle' = 0
              /\ q_rt' = "hc_loop"
  /\ UNCHANGED <<qShared, qSim, q_wreq, q_wres, q_nconn, q_sock, q_sent, q_nsent,
                 qStop, gvars, pvars>>

\* _handle_client: `while self._running`.
QHcLoop ==
  /\ q_rt = "hc_loop"
  /\ q_rt' = IF q_running THEN "hc_recv" ELSE "hc_close"
  /\ UNCHANGED <<qShared, qSim, q_wreq, q_wres, q_msg_count, q_idle, qNet, qStop,
                 gvars, pvars>>

\* QHcRecv as it would be if idle teardown did not ask for a first message.
QHcRecvIdleAlways ==
  /\ q_rt = "hc_recv"
  /\ IF ~q_running
       THEN /\ q_rt' = "hc_close"
            /\ UNCHANGED <<q_req, q_wreq, q_msg_count, q_idle, q_sock>>
       ELSE IF q_sock # <<>>
         THEN IF Head(q_sock).op = "BAD"
           THEN \* MmioRequest.unpack raises ValueError: not caught
                /\ q_rt' = "hc_exc"
                /\ q_sock' = Tail(q_sock)
                /\ q_idle' = 0
                /\ UNCHANGED <<q_req, q_wreq, q_msg_count>>
           ELSE /\ q_idle' = 0
                /\ q_msg_count' = q_msg_count + 1
                /\ q_wreq' = Head(q_sock)
                /\ q_sock' = Tail(q_sock)
                /\ q_req' = Append(q_req, Head(q_sock))
                /\ q_rt' = "hc_wait"
         ELSE IF q_conn = "open"
           THEN \* timeout with no data
                /\ q_idle' = IF q_idle < MAX_IDLE THEN q_idle + 1 ELSE q_idle
                /\ q_rt' = IF q_idle + 1 >= MAX_IDLE
                             THEN "hc_close" ELSE "hc_loop"
                /\ UNCHANGED <<q_req, q_wreq, q_msg_count, q_sock>>
           ELSE \* the peer has closed: recv returns b"", or raises OSError
                /\ q_rt' = "hc_close"
                /\ UNCHANGED <<q_req, q_wreq, q_msg_count, q_idle, q_sock>>
  /\ UNCHANGED <<q_running, q_resp, q_server, qSim, q_wres, q_conn, q_pending,
                 q_nconn, q_accepts, q_sent, q_nsent, qStop, gvars, pvars>>

\* _handle_client: _recv_exact(conn, HDR_SIZE) and what follows it, up to the
\* put on the request queue.  idle_timeouts is only ever compared with max_idle,
\* so the model stops counting there.
QHcRecv ==
  /\ q_rt = "hc_recv"
  /\ IF ~q_running
       THEN /\ q_rt' = "hc_close"
            /\ UNCHANGED <<q_req, q_wreq, q_msg_count, q_idle, q_sock>>
       ELSE IF q_sock # <<>>
         THEN IF Head(q_sock).op = "BAD"
           THEN \* MmioRequest.unpack raises ValueError: not caught
                /\ q_rt' = "hc_exc"
                /\ q_sock' = Tail(q_sock)
                /\ q_idle' = 0
                /\ UNCHANGED <<q_req, q_wreq, q_msg_count>>
           ELSE /\ q_idle' = 0
                /\ q_msg_count' = q_msg_count + 1
                /\ q_wreq' = Head(q_sock)
                /\ q_sock' = Tail(q_sock)
                /\ q_req' = Append(q_req, Head(q_sock))
                /\ q_rt' = "hc_wait"
         ELSE IF q_conn = "open"
           THEN \* timeout with no data
                /\ q_idle' = IF q_idle < MAX_IDLE THEN q_idle + 1 ELSE q_idle
                /\ q_rt' = IF q_msg_count > 0 /\ q_idle + 1 >= MAX_IDLE
                             THEN "hc_close" ELSE "hc_loop"
                /\ UNCHANGED <<q_req, q_wreq, q_msg_count, q_sock>>
           ELSE \* the peer has closed: recv returns b"", or raises OSError
                /\ q_rt' = "hc_close"
                /\ UNCHANGED <<q_req, q_wreq, q_msg_count, q_idle, q_sock>>
  /\ UNCHANGED <<q_running, q_resp, q_server, qSim, q_wres, q_conn, q_pending,
                 q_nconn, q_accepts, q_sent, q_nsent, qStop, gvars, pvars>>

\* QHcWait as it would be if the worker went on to its next receive without
\* taking the response.
QHcWaitNoBlock ==
  /\ q_rt = "hc_wait"
  /\ q_rt' = "hc_loop"
  /\ UNCHANGED <<qShared, qSim, q_wreq, q_wres, q_msg_count, q_idle, qNet, qStop,
                 gvars, pvars>>

\* _handle_client: result = self._resp_queue.get(), blocking.
QHcWait ==
  /\ q_rt = "hc_wait"
  /\ q_resp # <<>>
  /\ q_wres' = Head(q_resp)
  /\ q_resp' = Tail(q_resp)
  /\ q_rt' = "hc_send"
  /\ UNCHANGED <<q_running, q_req, q_server, qSim, q_wreq, q_msg_count, q_idle, qNet,
                 qStop, gvars, pvars>>

\* _handle_client: conn.sendall(...); a closed peer raises BrokenPipeError.
QHcSend ==
  /\ q_rt = "hc_send"
  /\ IF q_conn = "open"
       THEN /\ q_sent' = Append(q_sent, QReply(q_wreq, q_wres))
            /\ q_rt' = "hc_loop"
       ELSE /\ q_rt' = "hc_close"
            /\ UNCHANGED q_sent
  /\ UNCHANGED <<qShared, qSim, q_wreq, q_wres, q_msg_count, q_idle, q_conn,
                 q_pending, q_nconn, q_accepts, q_sock, q_nsent, qStop, gvars, pvars>>

\* _handle_client: finally conn.close(), after a break or a caught exception.
QHcClose ==
  /\ q_rt = "hc_close"
  /\ q_conn' = "closed"
  /\ q_sock' = <<>>
  /\ q_rt' = "post_flag"
  /\ UNCHANGED <<qShared, qSim, q_wreq, q_wres, q_msg_count, q_idle, q_pending,
                 q_nconn, q_accepts, q_sent, q_nsent, qStop, gvars, pvars>>

\* _handle_client: finally conn.close(), with an exception that propagates
\* out of _handle_client and out of _recv_loop's try.
QHcExc ==
  /\ q_rt = "hc_exc"
  /\ q_conn' = "closed"
  /\ q_sock' = <<>>
  /\ q_rt' = "finally"
  /\ UNCHANGED <<qShared, qSim, q_wreq, q_wres, q_msg_count, q_idle, q_pending,
                 q_nconn, q_accepts, q_sent, q_nsent, qStop, gvars, pvars>>

\* QPostFlag as it would be if the worker left the flag up after a session.
QPostFlagKeep ==
  /\ q_rt = "post_flag"
  /\ q_rt' = "post_put"
  /\ UNCHANGED <<qShared, qSim, q_wreq, q_wres, q_msg_count, q_idle,
                 qNet, qStop, gvars, pvars>>

\* _recv_loop, after _handle_client: self._running = False.
QPostFlag ==
  /\ q_rt = "post_flag"
  /\ q_running' = FALSE
  /\ q_rt' = "post_put"
  /\ UNCHANGED <<q_req, q_resp, q_server, qSim, q_wreq, q_wres, q_msg_count, q_idle,
                 qNet, qStop, gvars, pvars>>

\* _recv_loop, after _handle_client: self._req_queue.put(None).
QPostPut ==
  /\ q_rt = "post_put"
  /\ q_req' = Append(q_req, Sentinel)
  /\ q_rt' = "rl_loop"
  /\ UNCHANGED <<q_running, q_resp, q_server, qSim, q_wreq, q_wres, q_msg_count,
                 q_idle, qNet, qStop, gvars, pvars>>

\* _recv_loop: finally: close the listening socket, unlink the path.
QFinally ==
  /\ q_rt = "finally"
  /\ q_server' = "closed"
  /\ q_rt' = "dead"
  /\ UNCHANGED <<q_running, q_req, q_resp, qSim, q_wreq, q_wres, q_msg_count, q_idle,
                 qNet, qStop, gvars, pvars>>

\* A client connects to the listening socket.
QClientConnect ==
  /\ q_server = "open"
  /\ q_nconn < MaxClients
  /\ q_nconn' = q_nconn + 1
  /\ q_pending' = q_pending + 1
  /\ UNCHANGED <<qShared, qSim, qWorker, q_conn, q_accepts, q_sock, q_sent, q_nsent,
                 qStop, gvars, pvars>>

\* The client of the accepted connection sends one frame.
QClientSend ==
  /\ q_conn = "open"
  /\ q_nsent < MaxReqs
  /\ q_sock = <<>>
  /\ \E f \in QFrames(q_nsent + 1) : q_sock' = Append(q_sock, f)
  /\ q_nsent' = q_nsent + 1
  /\ UNCHANGED <<qShared, qSim, qWorker, q_conn, q_pending, q_nconn, q_accepts,
                 q_sent, qStop, gvars, pvars>>

\* The client of the accepted connection closes its end.
QClientClose ==
  /\ q_conn = "open"
  /\ q_conn' = "peer_closed"
  /\ UNCHANGED <<qShared, qSim, qWorker, q_pending, q_nconn, q_accepts, q_sock,
                 q_sent, q_nsent, qStop, gvars, pvars>>

\* QStopFlag as it would be if stop() cancelled the poll loop's task while it
\* awaits the device.
QStopFlagCancel ==
  /\ q_stop = "idle"
  /\ q_stops < MaxStops
  /\ q_sim # "init"
  /\ q_running' = FALSE
  /\ q_stop' = "put"
  /\ q_stops' = q_stops + 1
  /\ q_sim' = IF q_sim = "axi" THEN "exit" ELSE q_sim
  /\ UNCHANGED <<q_req, q_resp, q_server, q_cur, q_inflight, q_reg, qWorker, qNet,
                 gvars, pvars>>

\* stop(): self._running = False.
QStopFlag ==
  /\ q_stop = "idle"
  /\ q_stops < MaxStops
  /\ q_sim # "init"
  /\ q_running' = FALSE
  /\ q_stop' = "put"
  /\ q_stops' = q_stops + 1
  /\ UNCHANGED <<q_req, q_resp, q_server, qSim, qWorker, qNet, gvars, pvars>>

\* QStopPut as it would be if stop() put its None on the response queue, to
\* wake a waiting worker, as well as on the request queue.
QStopPutBoth ==
  /\ q_stop = "put"
  /\ q_req' = Append(q_req, Sentinel)
  /\ q_resp' = Append(q_resp, NoRes)
  /\ q_stop' = "close"
  /\ UNCHANGED <<q_running, q_server, qSim, qWorker, qNet, q_stops, gvars, pvars>>

\* stop(): self._req_queue.put(None).
QStopPut ==
  /\ q_stop = "put"
  /\ q_req' = Append(q_req, Sentinel)
  /\ q_stop' = "close"
  /\ UNCHANGED <<q_running, q_resp, q_server, qSim, qWorker, qNet, q_stops, gvars, pvars>>

\* stop(): close the listening socket if _recv_loop has created it.
QStopClose ==
  /\ q_stop = "close"
  /\ q_server' = IF q_server = "open" THEN "closed" ELSE q_server
  /\ q_stop' = "idle"
  /\ UNCHANGED <<q_running, q_req, q_resp, qSim, qWorker, qNet, q_stops, gvars, pvars>>

\* stop() run from its first line to its last with no other thread stepping in
\* between, as a function of the three things it writes.
QStopEffect(b) ==
  [running |-> FALSE,
   req |-> Append(b.req, Sentinel),
   server |-> IF b.server = "open" THEN "closed" ELSE b.server]

QNext ==
  \/ QStart \/ QSimLoop \/ QSimGet \/ QSimTimer \/ QAxiDone
  \/ QRecvSetup \/ QRecvLoop \/ QAccept
  \/ QHcLoop \/ QHcRecv \/ QHcWait \/ QHcSend \/ QHcClose \/ QHcExc
  \/ QPostFlag \/ QPostPut \/ QFinally
  \/ QClientConnect \/ QClientSend \/ QClientClose
  \/ QStopFlag \/ QStopPut \/ QStopClose

\* The steps of the poll loop, which the cocotb scheduler resumes whenever the
\* loop can go on; the steps of the worker thread, which the operating system
\* schedules; and the rest of a stop() call that has begun.
QSimNext == QSimLoop \/ QSimGet \/ QSimTimer \/ QAxiDone
QWorkerNext ==
  \/ QRecvSetup \/ QRecvLoop \/ QAccept
  \/ QHcLoop \/ QHcRecv \/ QHcWait \/ QHcSend \/ QHcClose \/ QHcExc
  \/ QPostFlag \/ QPostPut \/ QFinally
QStopRest == QStopPut \/ QStopClose

\* =========================================================== GpioBridge
\* The descriptors the co-simulation entry point configures: index 0 is
\* gpio_out (OUT), index 1 is gpio_in (IN).
NumSignals == 2
SigIdx == 0..(NumSignals - 1)
SigDir(idx) == IF idx = 0 THEN "OUT" ELSE "IN"

Absent == -1         \* self._last_values.get(idx) is None

GNoRes == [t |-> "NONE", idx |-> 0, val |-> 0]
GSentinel == [op |-> "SENTINEL", idx |-> 0, val |-> 0]

\* GpioErr
BAD_INDEX == 1
WRONG_DIRECTION == 2
BAD_OPCODE == 3

\* What the signal client can put on the wire: one of the five requests, with
\* an index that may be out of range, or an opcode byte outside the known set.
GMessages ==
  {[op |-> "LIST", idx |-> 0, val |-> 0],
   [op |-> "BADOP", idx |-> 0, val |-> 0]}
    \cup {[op |-> o, idx |-> i, val |-> 0] :
            o \in {"GET", "SUBSCRIBE", "UNSUB"}, i \in 0..NumSignals}
    \cup {[op |-> "SET", idx |-> i, val |-> v] :
            i \in 0..NumSignals, v \in Vals}

HasPayload(req) == req.op \in {"GET", "SET", "SUBSCRIBE", "UNSUB"}

\* GErrCode as it would be if the direction were checked before the index.
GErrCodeDirFirst(req) ==
  IF req.op = "LIST" THEN 0
  ELSE IF req.op \in {"GET", "SUBSCRIBE"}
    THEN IF SigDir(req.idx) # "OUT" THEN WRONG_DIRECTION
         ELSE IF req.idx >= NumSignals THEN BAD_INDEX ELSE 0
  ELSE IF req.op = "SET"
    THEN IF SigDir(req.idx) # "IN" THEN WRONG_DIRECTION
         ELSE IF req.idx >= NumSignals THEN BAD_INDEX ELSE 0
  ELSE IF req.op = "UNSUB"
    THEN IF req.idx >= NumSignals THEN BAD_INDEX ELSE 0
  ELSE BAD_OPCODE

\* _handle_request: the ERR code of a request, 0 when it is served.
GErrCode(req) ==
  IF req.op = "LIST" THEN 0
  ELSE IF req.op \in {"GET", "SUBSCRIBE"}
    THEN IF req.idx >= NumSignals THEN BAD_INDEX
         ELSE IF SigDir(req.idx) # "OUT" THEN WRONG_DIRECTION ELSE 0
  ELSE IF req.op = "SET"
    THEN IF req.idx >= NumSignals THEN BAD_INDEX
         ELSE IF SigDir(req.idx) # "IN" THEN WRONG_DIRECTION ELSE 0
  ELSE IF req.op = "UNSUB"
    THEN IF req.idx >= NumSignals THEN BAD_INDEX ELSE 0
  ELSE BAD_OPCODE

\* The name and the width of each descriptor: width is len(handle), the width
\* of the device's port.
SigName(idx) == IF idx = 0 THEN "gpio_out" ELSE "gpio_in"
SigWidth(idx) == 8

\* GListEntries as it would be if the entries came out last descriptor first.
GListEntriesReversed ==
  [i \in 1..NumSignals |->
     [name |-> SigName(NumSignals - i), width |-> SigWidth(NumSignals - i),
      direction |-> SigDir(NumSignals - i)]]

\* _build_list_resp: one entry per descriptor of self._signals, in its order;
\* the response message carries their number, and the entries follow it.
GListEntries ==
  [i \in 1..NumSignals |->
     [name |-> SigName(i - 1), width |-> SigWidth(i - 1),
      direction |-> SigDir(i - 1)]]

\* _handle_request: the message put on the response queue.
GResp(req, sig) ==
  IF GErrCode(req) # 0
    THEN [t |-> "ERR", idx |-> 0, val |-> GErrCode(req)]
  ELSE IF req.op = "LIST"
    THEN [t |-> "LIST_RESP", idx |-> Len(GListEntries), val |-> 0]
  ELSE IF req.op = "GET"
    THEN [t |-> "VALUE", idx |-> req.idx, val |-> sig[req.idx]]
  ELSE [t |-> "ACK", idx |-> 0, val |-> 0]

\* GSigAfter as it would be if SET wrote before the direction check.
GSigAfterUnchecked(req, sig) ==
  IF req.op = "SET" /\ req.idx < NumSignals
    THEN [sig EXCEPT ![req.idx] = req.val] ELSE sig

\* _handle_request, SET: sig.handle.value = val.
GSigAfter(req, sig) ==
  IF GErrCode(req) = 0 /\ req.op = "SET"
    THEN [sig EXCEPT ![req.idx] = req.val] ELSE sig

\* GSubsAfter as it would be if SUBSCRIBE added the index before its checks.
GSubsAfterUnchecked(req, subs) ==
  IF req.op = "SUBSCRIBE" THEN subs \cup {req.idx}
  ELSE IF GErrCode(req) = 0 /\ req.op = "UNSUB" THEN subs \ {req.idx}
  ELSE subs

\* _handle_request, SUBSCRIBE and UNSUB: the subscription set.
GSubsAfter(req, subs) ==
  IF GErrCode(req) # 0 THEN subs
  ELSE IF req.op = "SUBSCRIBE" THEN subs \cup {req.idx}
  ELSE IF req.op = "UNSUB" THEN subs \ {req.idx}
  ELSE subs

\* SubscribeCache as it would be if SUBSCRIBE started the cache at 0.
SubscribeCacheZero(idx, sig) == 0

\* _handle_request, SUBSCRIBE: the value cached for idx.
SubscribeCache(idx, sig) == sig[idx]

\* GLastAfter as it would be if SUBSCRIBE cached the value before the
\* direction check.
GLastAfterUnchecked(req, last, sig) ==
  IF req.op = "SUBSCRIBE" /\ req.idx < NumSignals
    THEN [last EXCEPT ![req.idx] = SubscribeCache(req.idx, sig)]
  ELSE IF GErrCode(req) = 0 /\ req.op = "UNSUB"
    THEN [last EXCEPT ![req.idx] = Absent]
  ELSE last

\* _handle_request, SUBSCRIBE and UNSUB: the last-value cache.
GLastAfter(req, last, sig) ==
  IF GErrCode(req) # 0 THEN last
  ELSE IF req.op = "SUBSCRIBE"
    THEN [last EXCEPT ![req.idx] = SubscribeCache(req.idx, sig)]
  ELSE IF req.op = "UNSUB" THEN [last EXCEPT ![req.idx] = Absent]
  ELSE last

\* list(self._subscriptions): the indices in the order a small-int set yields.
RECURSIVE AscSeq(_)
AscSeq(S) ==
  IF S = {} THEN <<>>
  ELSE LET m == CHOOSE x \in S : \A y \in S : x <= y
       IN <<m>> \o AscSeq(S \ {m})

\* struct.pack("<BBi", GpioResp.VALUE, idx, cur), as sent to the client.
Notification(idx, cur) == [t |-> "VALUE", idx |-> idx, val |-> cur]

gShared == <<g_running, g_req, g_resp, g_notify, g_subs, g_last, g_server>>
gSim == <<g_sim, g_todo, g_cur, g_prev, g_sig, g_fresh>>
gWorker == <<g_rt, g_wres>>
gNet == <<g_conn, g_cid, g_pending, g_sock, g_subbed>>
gStop == <<g_stop, g_stops>>

GInit ==
  /\ g_running = FALSE
  /\ g_req = <<>>
  /\ g_resp = <<>>
  /\ g_notify = <<>>
  /\ g_subs = {}
  /\ g_last = [i \in SigIdx |-> Absent]
  /\ g_sig = [i \in SigIdx |-> 0]
  /\ g_server = "none"
  /\ g_sim = "init"
  /\ g_todo = <<>>
  /\ g_cur = 0
  /\ g_prev = Absent
  /\ g_rt = "init"
  /\ g_wres = GNoRes
  /\ g_conn = "none"
  /\ g_cid = 0
  /\ g_pending = 0
  /\ g_sock = <<>>
  /\ g_stop = "idle"
  /\ g_stops = 0
  /\ g_fresh = {}
  /\ g_subbed = {}

\* No function is under study while a bridge runs.
RNoRet == [kind |-> "pending", data |-> <<>>]

PIdle ==
  /\ p_fn = "none"
  /\ p_in = "none"
  /\ p_out = "none"
  /\ r_pc = "none"
  /\ r_buf = <<>>
  /\ r_stream = <<>>
  /\ r_rcvd = <<>>
  /\ r_done = <<>>
  /\ r_ret = RNoRet
  /\ r_ev = "none"
  /\ r_idle = 0
  /\ r_msg_count = 0
  /\ r_run = FALSE

Init == QInit /\ GInit /\ PIdle

SpecQemu == Init /\ [][QNext]_vars

\* The memory bridge with every thread that can take a step taking one in the
\* end.
FairSpecQemu ==
  SpecQemu /\ WF_vars(QSimNext) /\ WF_vars(QWorkerNext) /\ WF_vars(QStopRest)

\* start(): set the flag, start the _recv_loop thread, enter the poll loop.
GStart ==
  /\ g_sim = "init"
  /\ g_running' = TRUE
  /\ g_sim' = "loop"
  /\ g_rt' = "setup"
  /\ UNCHANGED <<g_req, g_resp, g_notify, g_subs, g_last, g_server, g_todo, g_cur,
                 g_prev, g_sig, g_fresh, g_wres, gNet, gStop, qvars, pvars>>

\* start(): `while self._running`.
GSimLoop ==
  /\ g_sim = "loop"
  /\ g_sim' = IF g_running THEN "get" ELSE "exit"
  /\ UNCHANGED <<gShared, g_todo, g_cur, g_prev, g_sig, g_fresh, gWorker,
                 gNet, gStop, qvars, pvars>>

\* start(): get_nowait(); Empty -> _sample_outputs; None -> break; a request
\* -> _handle_request(op, payload), which ends with the put on the response
\* queue, and then _sample_outputs.
GSimGet ==
  /\ g_sim = "get"
  /\ IF g_req = <<>>
       THEN /\ g_sim' = "sample"
            /\ UNCHANGED <<g_req, g_resp, g_subs, g_last, g_sig, g_fresh, g_subbed>>
       ELSE IF IsSentinel(Head(g_req))
         THEN /\ g_req' = Tail(g_req)
              /\ g_sim' = "exit"
              /\ UNCHANGED <<g_resp, g_subs, g_last, g_sig, g_fresh, g_subbed>>
         ELSE LET req == Head(g_req) IN
              /\ g_req' = Tail(g_req)
              /\ g_subs' = GSubsAfter(req, g_subs)
              /\ g_last' = GLastAfter(req, g_last, g_sig)
              /\ g_sig' = GSigAfter(req, g_sig)
              /\ g_resp' = Append(g_resp, GResp(req, g_sig))
              /\ g_fresh' = IF GErrCode(req) = 0 /\ req.op = "SUBSCRIBE"
                              THEN g_fresh \cup {req.idx}
                            ELSE IF GErrCode(req) = 0 /\ req.op = "UNSUB"
                              THEN g_fresh \ {req.idx}
                            ELSE g_fresh
              /\ g_subbed' = IF GErrCode(req) = 0 /\ req.op = "SUBSCRIBE"
                               THEN g_subbed \cup {req.idx} ELSE g_subbed
              /\ g_sim' = "sample"
  /\ UNCHANGED <<g_running, g_notify, g_server, g_todo, g_cur, g_prev,
                 gWorker, g_conn, g_cid, g_pending, g_sock,
                 gStop, qvars, pvars>>

\* _sample_outputs: `for idx in list(self._subscriptions)` takes its copy.
GSampleBegin ==
  /\ g_sim = "sample"
  /\ g_todo' = AscSeq(g_subs)
  /\ g_sim' = IF g_subs = {} THEN "timer" ELSE "s_read"
  /\ UNCHANGED <<gShared, g_cur, g_prev, g_sig, g_fresh, gWorker, gNet,
                 gStop, qvars, pvars>>

\* _sample_outputs: what one iteration does with cur and prev.
SampleDecision(cur, prev) ==
  IF prev = Absent THEN "s_store"
  ELSE IF cur # prev THEN "s_store_n"
  ELSE "next"

\* _sample_outputs: where the loop goes when an iteration ends.
SampleNext(todo) == IF Tail(todo) = <<>> THEN "timer" ELSE "s_read"

\* _sample_outputs: cur = int(sig.handle.value); prev = self._last_values.get(idx).
\* The locals are forgotten when the iteration that read them ends.
GSampleRead ==
  /\ g_sim = "s_read"
  /\ LET idx == Head(g_todo)
         d == SampleDecision(g_sig[idx], g_last[idx]) IN
     /\ g_fresh' = g_fresh \ {idx}
     /\ IF d = "next"
          THEN /\ g_todo' = Tail(g_todo)
               /\ g_sim' = SampleNext(g_todo)
               /\ UNCHANGED <<g_cur, g_prev>>
          ELSE /\ g_sim' = d
               /\ g_cur' = g_sig[idx]
               /\ g_prev' = g_last[idx]
               /\ UNCHANGED g_todo
  /\ UNCHANGED <<gShared, g_sig, gWorker, gNet, gStop, qvars, pvars>>

\* _sample_outputs, first observation: self._last_values[idx] = cur; continue.
GSampleStore ==
  /\ g_sim = "s_store"
  /\ g_last' = [g_last EXCEPT ![Head(g_todo)] = g_cur]
  /\ g_todo' = Tail(g_todo)
  /\ g_sim' = SampleNext(g_todo)
  /\ g_cur' = 0
  /\ g_prev' = Absent
  /\ UNCHANGED <<g_running, g_req, g_resp, g_notify, g_subs, g_server, g_sig,
                 g_fresh, gWorker, gNet, gStop, qvars, pvars>>

\* GSampleChanged as it would be if the changed value were not cached.
GSampleChangedNoCache ==
  /\ g_sim = "s_store_n"
  /\ g_sim' = "s_put"
  /\ UNCHANGED <<gShared, g_todo, g_cur, g_prev, g_sig, g_fresh, gWorker,
                 gNet, gStop, qvars, pvars>>

\* _sample_outputs, a changed value: self._last_values[idx] = cur.
GSampleChanged ==
  /\ g_sim = "s_store_n"
  /\ g_last' = [g_last EXCEPT ![Head(g_todo)] = g_cur]
  /\ g_sim' = "s_put"
  /\ UNCHANGED <<g_running, g_req, g_resp, g_notify, g_subs, g_server, g_todo, g_cur,
                 g_prev, g_sig, g_fresh, gWorker, gNet, gStop, qvars, pvars>>

\* _sample_outputs, a changed value: self._notify_queue.put(VALUE(idx, cur)).
GSampleNotify ==
  /\ g_sim = "s_put"
  /\ g_notify' = Append(g_notify, Notification(Head(g_todo), g_cur))
  /\ g_todo' = Tail(g_todo)
  /\ g_sim' = SampleNext(g_todo)
  /\ g_cur' = 0
  /\ g_prev' = Absent
  /\ UNCHANGED <<g_running, g_req, g_resp, g_subs, g_last, g_server, g_sig,
                 g_fresh, gWorker, gNet, gStop, qvars, pvars>>

\* start(): `await Timer(poll_ns)` returns.
GSimTimer ==
  /\ g_sim = "timer"
  /\ g_sim' = "loop"
  /\ UNCHANGED <<gShared, g_todo, g_cur, g_prev, g_sig, g_fresh, gWorker,
                 gNet, gStop, qvars, pvars>>

\* The device drives an output signal to another value.  Simulation time only
\* advances while the poll loop is suspended in its Timer.
GSigChange ==
  /\ g_sim = "timer"
  /\ Len(g_notify) < MaxNotify
  /\ \E i \in SigIdx, v \in Vals :
       /\ SigDir(i) = "OUT"
       /\ v # g_sig[i]
       /\ g_sig' = [g_sig EXCEPT ![i] = v]
  /\ UNCHANGED <<gShared, g_sim, g_todo, g_cur, g_prev, g_fresh, gWorker, gNet,
                 gStop, qvars, pvars>>

\* _recv_loop: bind and listen.
GRecvSetup ==
  /\ g_rt = "setup"
  /\ g_server' = "open"
  /\ g_rt' = "rl_loop"
  /\ UNCHANGED <<g_running, g_req, g_resp, g_notify, g_subs, g_last, gSim, g_wres, gNet, gStop, qvars, pvars>>

\* _recv_loop: `while self._running`.
GRecvLoop ==
  /\ g_rt = "rl_loop"
  /\ g_rt' = IF g_running THEN "accept" ELSE "finally"
  /\ UNCHANGED <<gShared, gSim, g_wres, gNet, gStop, qvars, pvars>>

\* _recv_loop: accept().  A closed listening socket raises OSError, which only
\* the finally clause handles; no waiting client is a timeout; else a new
\* connection, whose client has received and subscribed nothing yet.
GAccept ==
  /\ g_rt = "accept"
  /\ IF g_server # "open"
       THEN /\ g_rt' = "finally"
            /\ UNCHANGED <<g_conn, g_cid, g_pending, g_sock, g_subbed>>
       ELSE IF g_pending = 0
         THEN /\ g_rt' = "rl_loop"
              /\ UNCHANGED <<g_conn, g_cid, g_pending, g_sock, g_subbed>>
         ELSE /\ g_pending' = g_pending - 1
              /\ g_cid' = IF g_cid = 0 THEN 1 ELSE 2
              /\ g_conn' = "open"
              /\ g_sock' = <<>>
              /\ g_subbed' = {}
              /\ g_rt' = "hc_loop"
  /\ UNCHANGED <<gShared, gSim, g_wres, gStop, qvars, pvars>>

\* _handle_client: `while self._running`.
GHcLoop ==
  /\ g_rt = "hc_loop"
  /\ g_rt' = IF g_running THEN "hc_drain" ELSE "hc_close"
  /\ UNCHANGED <<gShared, gSim, g_wres, gNet, gStop, qvars, pvars>>

\* _drain_notifications, one iteration: get_nowait(); Empty ends the drain;
\* else sendall, and a failed sendall ends the drain with the message lost.
GDrain ==
  /\ g_rt = "hc_drain"
  /\ IF g_notify = <<>>
       THEN /\ g_rt' = "hc_recv"
            /\ UNCHANGED g_notify
       ELSE /\ g_notify' = Tail(g_notify)
            /\ g_rt' = IF g_conn = "open" THEN "hc_drain" ELSE "hc_recv"
  /\ UNCHANGED <<g_running, g_req, g_resp, g_subs, g_last, g_server, gSim, g_wres, g_conn, g_cid, g_pending, g_sock, g_subbed,
                 gStop, qvars, pvars>>

\* A message of which the client has sent the opcode byte and not yet the
\* payload: it stays at the head of the socket, marked by its index, until the
\* payload is sent.
NoPayloadYet == -1
OpcodeOnly(m) == m.idx = NoPayloadYet

\* _handle_client: recv(1), the payload by _recv_exact, and the put on the
\* request queue.  _recv_exact gives up when the flag is down.  With the
\* opcode of a request read and its payload not there, the worker is inside
\* _recv_exact.
GHcRecv ==
  /\ g_rt = "hc_recv"
  /\ IF g_sock # <<>>
       THEN IF OpcodeOnly(Head(g_sock))
         THEN /\ g_rt' = "hc_payload"
              /\ UNCHANGED <<g_req, g_sock>>
         ELSE /\ g_sock' = Tail(g_sock)
              /\ IF HasPayload(Head(g_sock)) /\ ~g_running
                   THEN /\ g_rt' = "hc_close"
                        /\ UNCHANGED g_req
                   ELSE /\ g_req' = Append(g_req, Head(g_sock))
                        /\ g_rt' = "hc_wait"
       ELSE /\ g_rt' = IF g_conn = "open" THEN "hc_loop" ELSE "hc_close"
            /\ UNCHANGED <<g_req, g_sock>>
  /\ UNCHANGED <<g_running, g_resp, g_notify, g_subs, g_last, g_server, gSim, g_wres,
                 g_conn, g_cid, g_pending, g_subbed, gStop,
                 qvars, pvars>>

\* _recv_exact, for the payload of an opcode already read: the flag down or
\* the peer gone returns None and the session ends; the payload there
\* completes the request, which is put on the request queue; a timeout goes
\* round the loop again and changes nothing.
GHcPayload ==
  /\ g_rt = "hc_payload"
  /\ IF ~g_running
       THEN /\ g_rt' = "hc_close"
            /\ UNCHANGED <<g_req, g_sock>>
       ELSE IF ~OpcodeOnly(Head(g_sock))
         THEN /\ g_req' = Append(g_req, Head(g_sock))
              /\ g_sock' = Tail(g_sock)
              /\ g_rt' = "hc_wait"
         ELSE /\ g_conn # "open"
              /\ g_rt' = "hc_close"
              /\ UNCHANGED <<g_req, g_sock>>
  /\ UNCHANGED <<g_running, g_resp, g_notify, g_subs, g_last, g_server, gSim, g_wres,
                 g_conn, g_cid, g_pending, g_subbed, gStop,
                 qvars, pvars>>

\* _handle_client: resp = self._resp_queue.get(), blocking.
GHcWait ==
  /\ g_rt = "hc_wait"
  /\ g_resp # <<>>
  /\ g_wres' = Head(g_resp)
  /\ g_resp' = Tail(g_resp)
  /\ g_rt' = "hc_send"
  /\ UNCHANGED <<g_running, g_req, g_notify, g_subs, g_last, g_server, gSim, gNet, gStop, qvars, pvars>>

\* GHcSend as it would be if the worker closed the connection after an ERR.
GHcSendCloseOnErr ==
  /\ g_rt = "hc_send"
  /\ g_rt' = IF g_conn = "open" /\ g_wres.t # "ERR" THEN "hc_loop" ELSE "hc_close"
  /\ g_wres' = GNoRes
  /\ UNCHANGED <<gShared, gSim, g_conn, g_cid, g_pending,
                 g_sock, g_subbed, gStop, qvars, pvars>>

\* _handle_client: conn.sendall(resp); a closed peer raises BrokenPipeError.
GHcSend ==
  /\ g_rt = "hc_send"
  /\ g_rt' = IF g_conn = "open" THEN "hc_loop" ELSE "hc_close"
  /\ g_wres' = GNoRes
  /\ UNCHANGED <<gShared, gSim, g_conn, g_cid, g_pending,
                 g_sock, g_subbed, gStop, qvars, pvars>>

\* _handle_client: finally conn.close().
GHcClose ==
  /\ g_rt = "hc_close"
  /\ g_conn' = "closed"
  /\ g_sock' = <<>>
  /\ g_rt' = "clr_subs"
  /\ UNCHANGED <<gShared, gSim, g_wres, g_cid, g_pending, g_subbed, gStop, qvars, pvars>>

\* _recv_loop, after _handle_client: self._subscriptions.clear().
GClearSubs ==
  /\ g_rt = "clr_subs"
  /\ g_subs' = {}
  /\ g_rt' = "clr_last"
  /\ UNCHANGED <<g_running, g_req, g_resp, g_notify, g_last, g_server, gSim, g_wres, gNet, gStop, qvars, pvars>>

\* GClearLast as it would be if the worker took the flag down after a session.
GClearLastStop ==
  /\ g_rt = "clr_last"
  /\ g_last' = [i \in SigIdx |-> Absent]
  /\ g_running' = FALSE
  /\ g_rt' = "rl_loop"
  /\ UNCHANGED <<g_req, g_resp, g_notify, g_subs, g_server, gSim, g_wres, gNet, gStop, qvars, pvars>>

\* _recv_loop, after _handle_client: self._last_values.clear().
GClearLast ==
  /\ g_rt = "clr_last"
  /\ g_last' = [i \in SigIdx |-> Absent]
  /\ g_rt' = "rl_loop"
  /\ UNCHANGED <<g_running, g_req, g_resp, g_notify, g_subs, g_server, gSim, g_wres, gNet, gStop, qvars, pvars>>

\* _recv_loop: finally: close the listening socket, unlink the path.
GFinally ==
  /\ g_rt = "finally"
  /\ g_server' = "closed"
  /\ g_rt' = "dead"
  /\ UNCHANGED <<g_running, g_req, g_resp, g_notify, g_subs, g_last, gSim, g_wres, gNet, gStop, qvars, pvars>>

\* A client connects to the listening socket.
GClientConnect ==
  /\ g_server = "open"
  /\ g_pending = 0
  /\ g_pending' = 1
  /\ UNCHANGED <<gShared, gSim, gWorker, g_conn, g_cid, g_sock,
                 g_subbed, gStop, qvars, pvars>>

\* The client of the accepted connection sends one message.  A message sent
\* while the worker serves an earlier one waits in the socket until the worker
\* is back at its recv, so it is sent here when the worker is there.
GClientSend ==
  /\ g_conn = "open"
  /\ g_sock = <<>>
  /\ g_rt \in {"hc_loop", "hc_drain", "hc_recv"}
  /\ \E m \in GMessages : g_sock' = Append(g_sock, m)
  /\ UNCHANGED <<gShared, gSim, gWorker, g_conn, g_cid, g_pending,
                 g_subbed, gStop, qvars, pvars>>

\* The client of the accepted connection sends the opcode byte of a request
\* that has a payload, and nothing more for now.
GClientSendOpcode ==
  /\ g_conn = "open"
  /\ g_sock = <<>>
  /\ g_rt \in {"hc_loop", "hc_drain", "hc_recv"}
  /\ \E o \in {"GET", "SET", "SUBSCRIBE", "UNSUB"} :
       g_sock' = <<[op |-> o, idx |-> NoPayloadYet, val |-> 0]>>
  /\ UNCHANGED <<gShared, gSim, gWorker, g_conn, g_cid, g_pending,
                 g_subbed, gStop, qvars, pvars>>

\* The client sends the payload of the request whose opcode it has sent.
GClientSendPayload ==
  /\ g_conn = "open"
  /\ g_sock # <<>>
  /\ OpcodeOnly(Head(g_sock))
  /\ \E m \in GMessages :
       /\ m.op = Head(g_sock).op
       /\ g_sock' = <<m>>
  /\ UNCHANGED <<gShared, gSim, gWorker, g_conn, g_cid, g_pending,
                 g_subbed, gStop, qvars, pvars>>

\* The client of the accepted connection closes its end.
GClientClose ==
  /\ g_conn = "open"
  /\ g_conn' = "peer_closed"
  /\ UNCHANGED <<gShared, gSim, gWorker, g_cid, g_pending, g_sock, g_subbed, gStop, qvars, pvars>>

\* stop(): self._running = False.
GStopFlag ==
  /\ g_stop = "idle"
  /\ g_stops < GMaxStops
  /\ g_sim # "init"
  /\ g_running' = FALSE
  /\ g_stop' = "put"
  /\ g_stops' = g_stops + 1
  /\ UNCHANGED <<g_req, g_resp, g_notify, g_subs, g_last, g_server, gSim, gWorker,
                 gNet, qvars, pvars>>

\* stop(): self._req_queue.put(None).
GStopPut ==
  /\ g_stop = "put"
  /\ g_req' = Append(g_req, GSentinel)
  /\ g_stop' = "close"
  /\ UNCHANGED <<g_running, g_resp, g_notify, g_subs, g_last, g_server, gSim, gWorker,
                 gNet, g_stops, qvars, pvars>>

\* stop(): close the listening socket if _recv_loop has created it.
GStopClose ==
  /\ g_stop = "close"
  /\ g_server' = IF g_server = "open" THEN "closed" ELSE g_server
  /\ g_stop' = "idle"
  /\ UNCHANGED <<g_running, g_req, g_resp, g_notify, g_subs, g_last, gSim, gWorker,
                 gNet, g_stops, qvars, pvars>>

\* The signal bridge while it serves: start(), the poll loop with the sampler,
\* the device, the worker thread and its clients.
GNext ==
  \/ GStart \/ GSimLoop \/ GSimGet \/ GSimTimer \/ GSigChange
  \/ GSampleBegin \/ GSampleRead \/ GSampleStore \/ GSampleChanged \/ GSampleNotify
  \/ GRecvSetup \/ GRecvLoop \/ GAccept
  \/ GHcLoop \/ GDrain \/ GHcRecv \/ GHcWait \/ GHcSend \/ GHcClose
  \/ GClearSubs \/ GClearLast
  \/ GClientConnect \/ GClientSend \/ GClientClose

\* stop() and the worker's exit, which only a stop() brings about.
GStopNext ==
  \/ GStopFlag \/ GStopPut \/ GStopClose \/ GFinally

SpecGpio == Init /\ [][GNext]_vars

SpecGpioStop == Init /\ [][GNext \/ GStopNext]_vars

\* The steps of the poll loop and of the worker thread of the signal bridge.
GSimNext ==
  \/ GSimLoop \/ GSimGet \/ GSimTimer
  \/ GSampleBegin \/ GSampleRead \/ GSampleStore \/ GSampleChanged \/ GSampleNotify
GWorkerNext ==
  \/ GRecvSetup \/ GRecvLoop \/ GAccept
  \/ GHcLoop \/ GDrain \/ GHcRecv \/ GHcWait \/ GHcSend \/ GHcClose
  \/ GClearSubs \/ GClearLast

\* The serving signal bridge in front of a device that holds its outputs: no
\* value changes, so the sampler finds none and notifies nothing.
GQuietNext ==
  \/ GStart \/ GSimLoop \/ GSimGet \/ GSimTimer
  \/ GSampleBegin \/ GSampleRead \/ GSampleStore
  \/ GRecvSetup \/ GRecvLoop \/ GAccept
  \/ GHcLoop \/ GDrain \/ GHcRecv \/ GHcWait \/ GHcSend \/ GHcClose
  \/ GClearSubs \/ GClearLast
  \/ GClientConnect \/ GClientSend \/ GClientClose

FairSpecGpioQuiet ==
  Init /\ [][GQuietNext]_vars /\ WF_vars(GSimNext) /\ WF_vars(GWorkerNext)

\* The serving signal bridge with a client that may send the opcode byte of a
\* request and its payload apart, as late as it likes.
GSlowNext == GClientSendOpcode \/ GClientSendPayload \/ GHcPayload

FairSpecGpioSlow ==
  Init /\ [][GNext \/ GSlowNext]_vars
       /\ WF_vars(GSimNext) /\ WF_vars(GWorkerNext \/ GHcPayload)

\* The serving signal bridge with both threads taking a step in the end
\* whenever they can.
FairSpecGpio == SpecGpio /\ WF_vars(GSimNext) /\ WF_vars(GWorkerNext)

\* ========================================================== conversions
\* An unsigned integer is held as its base-256 digits, least significant
\* first, so that widths beyond the checker's integers keep their meaning.
U64_BYTES == 8
ZeroBytes(n) == [i \in 1..n |-> 0]
OneByteAt(n, k, b) == [i \in 1..n |-> IF i = k THEN b ELSE 0]

\* The integers a device handler is tried with: 0, the largest u64, and every
\* value with a single byte set to 1, 128 or 255.
U64Samples ==
  {ZeroBytes(U64_BYTES), [i \in 1..U64_BYTES |-> 255]}
    \cup {OneByteAt(U64_BYTES, k, b) : k \in 1..U64_BYTES, b \in {1, 128, 255}}

MmioSizes == {1, 2, 4, 8}

\* int.to_bytes(size, byteorder="little"): the low `size` digits, or
\* OverflowError when a higher digit is not 0.
ToBytes(v, size) ==
  IF \A i \in (size + 1)..Len(v) : v[i] = 0
    THEN [kind |-> "bytes", data |-> SubSeq(v, 1, size)]
    ELSE [kind |-> "raise", data |-> <<>>]

WRITE_ACK == <<1>>

\* _handle_client: what is handed to conn.sendall for a result.
QReplyBytes(req, result) ==
  IF req.op = "READ" THEN ToBytes(result, req.size)
  ELSE [kind |-> "bytes", data |-> WRITE_ACK]

NoOut == [kind |-> "none", data |-> <<>>]

\* The worker holds a request and the result the poll loop has put for it.
PInitReply ==
  /\ p_fn = "reply"
  /\ p_in \in [op : {"READ", "WRITE"}, size : MmioSizes, result : U64Samples]
  /\ p_out = NoOut

\* _handle_client: build the reply for the result.
PReply ==
  /\ p_fn = "reply"
  /\ p_out = NoOut
  /\ p_out' = QReplyBytes(p_in, p_in.result)
  /\ UNCHANGED <<p_fn, p_in, rvars, qvars, gvars>>

InitReply ==
  /\ QInit
  /\ GInit
  /\ PInitReply
  /\ r_pc = "none"
  /\ r_buf = <<>>
  /\ r_stream = <<>>
  /\ r_rcvd = <<>>
  /\ r_done = <<>>
  /\ r_ret = RNoRet
  /\ r_ev = "none"
  /\ r_idle = 0
  /\ r_msg_count = 0
  /\ r_run = FALSE

SpecReply == InitReply /\ [][PReply]_vars

\* ==================================================== both bridges, one simulation
\* cosim_test starts GpioBridge.start with cocotb.start_soon and awaits
\* QemuBridge.start: two coroutines of one scheduler.  A coroutine runs from
\* one await to the next without the other running; the worker threads and
\* the clients run beside them.
QSuspended == q_sim \in {"init", "timer", "axi", "exit"}

GSuspended == g_sim \in {"init", "timer", "exit"}

\* The memory bridge's coroutine runs: its start, a poll, the end of an await.
CoQSim ==
  /\ GSuspended
  /\ QStart \/ QSimLoop \/ QSimGet \/ QSimTimer \/ QAxiDone

\* The signal bridge's coroutine runs: its start, a poll with its sampler run,
\* the end of its Timer.
CoGSim ==
  /\ QSuspended
  /\ \/ GStart \/ GSimLoop \/ GSimGet \/ GSimTimer
     \/ GSampleBegin \/ GSampleRead

\* The memory bridge's worker thread and its client.
CoQWorker ==
  \/ QRecvSetup \/ QRecvLoop \/ QAccept
  \/ QHcLoop \/ QHcRecv \/ QHcWait \/ QHcSend
  \/ QClientConnect \/ QClientSend

\* A client of the signal bridge that reads output 0 or subscribes to it.
CoGClientSend ==
  /\ GClientSend
  /\ Head(g_sock').op \in {"GET", "SUBSCRIBE"}
  /\ Head(g_sock').idx = 0

\* The signal bridge's worker thread and its client.
CoGWorker ==
  \/ GRecvSetup \/ GRecvLoop \/ GAccept
  \/ GHcLoop \/ GDrain \/ GHcRecv \/ GHcWait \/ GHcSend
  \/ GClientConnect \/ CoGClientSend

CosimNext == CoQSim \/ CoGSim \/ CoQWorker \/ CoGWorker

SpecCosim == Init /\ [][CosimNext]_vars

\* ==================================================== VALUE messages
\* A signal value is an unsigned integer of up to 32 bits, kept as two 16-bit
\* halves: v = hi * 65536 + lo.
U16Samples == {0, 1, 255, 256, 32767, 32768, 65535}

WidthSamples == {1, 8, 16, 31, 32}

RESP_VALUE == 130

\* 2^n for n in 0..16.
RECURSIVE Pow2(_)
Pow2(n) == IF n = 0 THEN 1 ELSE 2 * Pow2(n - 1)

\* v < 2^width: a value a signal of that width can hold.
FitsWidth(v, width) ==
  IF width <= 16
    THEN v.hi = 0 /\ v.lo < Pow2(width)
    ELSE v.hi < Pow2(width - 16)

\* struct.pack("<i", v) for v >= 0: the four bytes of v, low byte first, and
\* struct.error for v > 2^31 - 1.
PackI32(v) ==
  IF v.hi < 32768
    THEN [kind |-> "bytes",
          data |-> <<v.lo % 256, v.lo \div 256, v.hi % 256, v.hi \div 256>>]
    ELSE [kind |-> "raise", data |-> <<>>]

\* struct.pack("<BBi", GpioResp.VALUE, idx, v).
PackValueMsg(idx, v) ==
  IF PackI32(v).kind = "bytes"
    THEN [kind |-> "bytes", data |-> <<RESP_VALUE, idx>> \o PackI32(v).data]
    ELSE PackI32(v)

\* struct.unpack_from("<I", rest, 1)[0], rest being the message after its
\* opcode byte.
UnpackU32(rest) ==
  [hi |-> rest[5] * 256 + rest[4], lo |-> rest[3] * 256 + rest[2]]

ZeroVal == [hi |-> 0, lo |-> 0]

NoValOut == [stage |-> "start", msg |-> <<>>, idx |-> 0, val |-> ZeroVal]

PInitValue ==
  /\ p_fn \in {"get", "notify"}
  /\ p_in \in {i \in [idx : {0}, width : WidthSamples,
                      v : [hi : U16Samples, lo : U16Samples]] :
                 FitsWidth(i.v, i.width)}
  /\ p_out = NoValOut

\* _handle_request (GET) or _sample_outputs (a change): cur = int(sig.handle.value)
\* and the VALUE message packed for it.
PEncode ==
  /\ p_fn \in {"get", "notify"}
  /\ p_out.stage = "start"
  /\ LET m == PackValueMsg(p_in.idx, p_in.v) IN
       p_out' = IF m.kind = "bytes"
                  THEN [p_out EXCEPT !.stage = "sent", !.msg = m.data]
                  ELSE [p_out EXCEPT !.stage = "raised"]
  /\ UNCHANGED <<p_fn, p_in, rvars, qvars, gvars>>

\* GpioClient.get / recv_notification: one byte, assert op == VALUE, five
\* bytes, the index and the value.
PDecode ==
  /\ p_fn \in {"get", "notify"}
  /\ p_out.stage = "sent"
  /\ p_out.msg[1] = RESP_VALUE
  /\ LET rest == SubSeq(p_out.msg, 2, 6) IN
       p_out' = [p_out EXCEPT !.stage = "read", !.idx = rest[1],
                              !.val = UnpackU32(rest)]
  /\ UNCHANGED <<p_fn, p_in, rvars, qvars, gvars>>

PValueNext == PEncode \/ PDecode

InitValue ==
  /\ QInit
  /\ GInit
  /\ PInitValue
  /\ r_pc = "none"
  /\ r_buf = <<>>
  /\ r_stream = <<>>
  /\ r_rcvd = <<>>
  /\ r_done = <<>>
  /\ r_ret = RNoRet
  /\ r_ev = "none"
  /\ r_idle = 0
  /\ r_msg_count = 0
  /\ r_run = FALSE

SpecValue == InitValue /\ [][PValueNext]_vars

\* ==================================================== the exact read
MaxFrames == 2

HDR_SIZE == 18

\* The peer's bytes are numbered, so that their order can be told.
RStreamAll == [i \in 1..(HDR_SIZE * MaxFrames) |-> i]

RInit ==
  /\ p_fn = "recv"
  /\ p_in = "none"
  /\ p_out = "none"
  /\ r_pc = "call"
  /\ r_buf = <<>>
  /\ r_stream = RStreamAll
  /\ r_rcvd = <<>>
  /\ r_done = <<>>
  /\ r_ret = RNoRet
  /\ r_ev = "none"
  /\ r_idle = 0
  /\ r_msg_count = 0
  /\ r_run = TRUE

rFrame == <<p_fn, p_in, p_out, qvars, gvars>>

\* _handle_client: `while self._running: data = self._recv_exact(conn, HDR_SIZE)`;
\* _recv_exact: buf = bytearray().
RCall ==
  /\ r_pc = "call"
  /\ IF r_run
       THEN /\ r_pc' = "loop"
            /\ r_buf' = <<>>
       ELSE /\ r_pc' = "done"
            /\ UNCHANGED r_buf
  /\ UNCHANGED <<r_stream, r_rcvd, r_done, r_ret, r_ev, r_idle, r_msg_count,
                 r_run, rFrame>>

\* _recv_exact: `while len(buf) < n`, `if not self._running: return None`, and
\* `return bytes(buf)` after the loop.
RLoop ==
  /\ r_pc = "loop"
  /\ IF Len(r_buf) < HDR_SIZE
       THEN IF ~r_run
              THEN /\ r_pc' = "ret"
                   /\ r_ret' = [kind |-> "None", data |-> <<>>]
              ELSE /\ r_pc' = "recv"
                   /\ UNCHANGED r_ret
       ELSE /\ r_pc' = "ret"
            /\ r_ret' = [kind |-> "bytes", data |-> r_buf]
  /\ UNCHANGED <<r_buf, r_stream, r_rcvd, r_done, r_ev, r_idle, r_msg_count,
                 r_run, rFrame>>

\* _recv_exact: sock.recv(n - len(buf)) hands over k bytes, buf.extend(chunk).
RRecvChunk ==
  /\ r_pc = "recv"
  /\ \E k \in 1..(HDR_SIZE - Len(r_buf)) :
       /\ k <= Len(r_stream)
       /\ r_buf' = r_buf \o SubSeq(r_stream, 1, k)
       /\ r_rcvd' = r_rcvd \o SubSeq(r_stream, 1, k)
       /\ r_stream' = SubSeq(r_stream, k + 1, Len(r_stream))
  /\ r_ev' = "chunk"
  /\ r_pc' = "loop"
  /\ UNCHANGED <<r_done, r_ret, r_idle, r_msg_count, r_run, rFrame>>

\* RRecvTimeout as it would be if a timeout gave up whatever was buffered.
RRecvTimeoutDiscard ==
  /\ r_pc = "recv"
  /\ r_ev' = "timeout"
  /\ r_pc' = "ret"
  /\ r_ret' = [kind |-> "empty", data |-> <<>>]
  /\ UNCHANGED <<r_buf, r_stream, r_rcvd, r_done, r_idle, r_msg_count, r_run,
                 rFrame>>

\* _recv_exact: socket.timeout; `return b""` with nothing buffered, `continue`
\* otherwise.
RRecvTimeout ==
  /\ r_pc = "recv"
  /\ r_ev' = "timeout"
  /\ IF Len(r_buf) = 0
       THEN /\ r_pc' = "ret"
            /\ r_ret' = [kind |-> "empty", data |-> <<>>]
       ELSE /\ r_pc' = "loop"
            /\ UNCHANGED r_ret
  /\ UNCHANGED <<r_buf, r_stream, r_rcvd, r_done, r_idle, r_msg_count, r_run,
                 rFrame>>

\* _recv_exact: the peer has closed, sock.recv returns b"": `return None`.
RRecvClosed ==
  /\ r_pc = "recv"
  /\ r_ev' = "closed"
  /\ r_stream' = <<>>
  /\ r_pc' = "ret"
  /\ r_ret' = [kind |-> "None", data |-> <<>>]
  /\ UNCHANGED <<r_buf, r_rcvd, r_done, r_idle, r_msg_count, r_run, rFrame>>

\* _handle_client: what the loop does with `data`: None -> break; b"" ->
\* idle_timeouts += 1 and the idle test; a message -> idle_timeouts = 0,
\* msg_count += 1, and on to the next read once it has been served.
\* idle_timeouts is only ever compared with max_idle and msg_count with 0.
RCaller ==
  /\ r_pc = "ret"
  /\ IF r_ret.kind = "None"
       THEN /\ r_pc' = "done"
            /\ UNCHANGED <<r_idle, r_msg_count, r_done>>
       ELSE IF r_ret.kind = "empty"
         THEN /\ r_idle' = IF r_idle < MAX_IDLE THEN r_idle + 1 ELSE r_idle
              /\ r_pc' = IF r_msg_count > 0 /\ r_idle + 1 >= MAX_IDLE
                           THEN "done" ELSE "call"
              /\ UNCHANGED <<r_msg_count, r_done>>
         ELSE /\ r_idle' = 0
              /\ r_msg_count' = IF r_msg_count < MaxFrames THEN r_msg_count + 1
                                ELSE r_msg_count
              /\ r_done' = r_done \o r_ret.data
              /\ r_pc' = "call"
  /\ UNCHANGED <<r_buf, r_stream, r_rcvd, r_ret, r_ev, r_run, rFrame>>

\* stop(): self._running = False, at any point of the read.
RStop ==
  /\ r_pc \in {"call", "loop", "recv", "ret"}
  /\ r_run
  /\ r_run' = FALSE
  /\ UNCHANGED <<r_pc, r_buf, r_stream, r_rcvd, r_done, r_ret, r_ev, r_idle,
                 r_msg_count, rFrame>>

RNext ==
  \/ RCall
  \/ RLoop
  \/ RRecvChunk
  \/ RRecvTimeout
  \/ RRecvClosed
  \/ RCaller
  \/ RStop

InitRecv == QInit /\ GInit /\ RInit

SpecRecv == InitRecv /\ [][RNext]_vars

\* ====================================================== claims, QemuBridge
Requests(q) == {i \in 1..Len(q) : ~IsSentinel(q[i])}

\* C1: in every reachable state at most one device operation of the bridge is
\* in progress, and it is the one the poll loop is awaiting: the loop never
\* begins a request while an earlier one has not finished.
C1_AtMostOneDeviceOp ==
  /\ Cardinality(q_inflight) <= 1
  /\ q_inflight # {} => (q_sim = "axi" /\ q_inflight = {q_cur.id})

\* C1 witness: a device operation is in progress while stop() has been called
\* and the client has closed its end.
C1_Witness ==
  /\ Cardinality(q_inflight) = 1
  /\ q_stops > 0
  /\ q_conn = "peer_closed"

C3_ResponseMatchesRequest ==
  /\ q_rt = "hc_send" => (q_wres.id = q_wreq.id /\ q_wres.id > 0)
  /\ \A i \in 1..Len(q_resp) : q_rt = "hc_wait" /\ q_resp[i].id = q_wreq.id

\* C3 witness: the worker holds the response to its second request, taken after
\* stop() has put its sentinel.
C3_Witness ==
  /\ q_rt = "hc_send"
  /\ q_wreq.id = 2
  /\ q_wres.id = 2
  /\ q_stops > 0

\* C4: a request the worker has put on the request queue is answered; the
\* worker is never left waiting for a response when the poll loop has exited
\* and the response queue is empty.
C4_NoWorkerLeftWaiting ==
  ~(q_rt = "hc_wait" /\ q_sim = "exit" /\ q_resp = <<>>)

C6_SamplerTick ==
  [][LET idx == Head(g_todo)
         simStep == <<g_sim, g_todo>>' # <<g_sim, g_todo>>
     IN /\ (g_sim = "s_read" /\ simStep /\ g_last[idx] # Absent
               /\ g_sig[idx] # g_last[idx])
             => /\ g_sim' = "s_store_n"
                /\ g_cur' = g_sig[idx]
                /\ g_todo' = g_todo
                /\ g_notify' = g_notify
                /\ g_last' = g_last
        /\ (g_sim = "s_store_n" /\ simStep)
             => /\ g_sim' = "s_put"
                /\ g_last' = [g_last EXCEPT ![idx] = g_cur]
                /\ g_todo' = g_todo
                /\ g_cur' = g_cur
                /\ g_notify' = g_notify
        /\ (g_sim = "s_put" /\ simStep)
             => /\ g_notify' = Append(g_notify, Notification(idx, g_cur))
                /\ g_last' = g_last
                /\ g_todo' = Tail(g_todo)
        /\ (g_sim = "s_read" /\ simStep /\ g_sig[idx] = g_last[idx])
             => /\ g_notify' = g_notify
                /\ g_last' = g_last
                /\ g_todo' = Tail(g_todo)
                /\ g_sim' \in {"s_read", "timer"}
        /\ (Len(g_notify') > Len(g_notify)) => g_sim = "s_put"
  ]_vars

\* C6, the case: the output went from 0 to 1, a tick has cached 1 and queued
\* the one VALUE(0, 1), and a later tick is reading the same value again.
C6_Witness ==
  /\ g_sim = "s_read"
  /\ Head(g_todo) = 0
  /\ g_sig[0] = 1
  /\ g_last[0] = 1
  /\ g_notify = <<Notification(0, 1)>>
  /\ g_fresh = {}

\* C7: the tick that reads a signal for the first time since its SUBSCRIBE
\* was served never goes on to notify: it leaves the notification queue
\* alone and ends with the value read in the cache or the cache untouched.
C7_FirstObservationSilent ==
  [][(g_sim = "s_read" /\ <<g_sim, g_todo>>' # <<g_sim, g_todo>>
        /\ Head(g_todo) \in g_fresh)
       => /\ g_sim' \in {"s_read", "s_store", "timer"}
          /\ g_notify' = g_notify
          /\ g_last' = g_last
          /\ g_sim' = "s_store" => g_cur' = g_sig[Head(g_todo)]
  ]_vars

\* C7, the case: the sampler is about to make its first observation of signal
\* 0 since the SUBSCRIBE, and the signal is not at its reset value.
C7_Witness ==
  /\ g_sim = "s_read"
  /\ Head(g_todo) = 0
  /\ 0 \in g_fresh
  /\ g_sig[0] = 1
  /\ g_notify = <<>>

\* C8: a connection accepted after an earlier one has ended is sent a
\* notification by the drain only for an index its own client has subscribed.
C8_NoNotificationBeforeSubscribe ==
  [][(g_rt = "hc_drain" /\ g_cid = 2 /\ g_conn = "open"
        /\ g_notify # <<>> /\ g_notify' = Tail(g_notify))
       => Head(g_notify).idx \in g_subbed
  ]_vars

\* C9: once a connection has been served and the worker is back in its accept
\* loop, the subscription set and the last-value cache are empty.
C9_EmptyAfterCleanup ==
  (g_cid >= 1 /\ g_rt \in {"rl_loop", "accept"})
    => (g_subs = {} /\ g_last = [i \in SigIdx |-> Absent])

\* C10: no step of the worker thread changes the subscription set or the
\* last-value cache.
C10_OnlySchedulerThread ==
  [][(g_rt' # g_rt /\ g_rt # "init")
       => (g_subs' = g_subs /\ g_last' = g_last)
  ]_vars

\* The request _handle_request is about to serve, when the poll loop is at its
\* get_nowait() and the head of the request queue is a request.
ServedReq == Head(g_req)
Serving ==
  /\ g_sim = "get"
  /\ g_req # <<>>
  /\ ~IsSentinel(Head(g_req))
  /\ g_sim' # g_sim
ErrResp(code) == [t |-> "ERR", idx |-> 0, val |-> code]

\* C11: serving GET on an in-range index of direction IN, or SET on an
\* in-range index of direction OUT, puts exactly ERR(WRONG_DIRECTION) on the
\* response queue, whatever the signal values are, and leaves every signal
\* value as it was.
C11_WrongDirection ==
  [][(/\ Serving
      /\ ServedReq.idx < NumSignals
      /\ \/ ServedReq.op = "GET" /\ SigDir(ServedReq.idx) = "IN"
         \/ ServedReq.op = "SET" /\ SigDir(ServedReq.idx) = "OUT")
       => /\ g_resp' = Append(g_resp, ErrResp(WRONG_DIRECTION))
          /\ g_sig' = g_sig
  ]_vars

\* C11, the case: a SET(0, 1) on the output signal, which was at 0, has just
\* been answered with ERR(WRONG_DIRECTION) and the signal is still at 0.
C11_Witness ==
  /\ g_sim = "sample"
  /\ g_resp = <<ErrResp(WRONG_DIRECTION)>>
  /\ g_sig[0] = 0

\* C12: serving GET, SET, SUBSCRIBE or UNSUB with an index at or above the
\* number of descriptors puts exactly ERR(BAD_INDEX) on the response queue,
\* whatever a direction check of that index would have said.
C12_BadIndex ==
  [][(/\ Serving
      /\ ServedReq.op \in {"GET", "SET", "SUBSCRIBE", "UNSUB"}
      /\ ServedReq.idx >= NumSignals)
       => g_resp' = Append(g_resp, ErrResp(BAD_INDEX))
  ]_vars

\* C12, the case: a request with an out-of-range index has just been answered
\* with ERR(BAD_INDEX).
C12_Witness ==
  /\ g_sim = "sample"
  /\ g_resp = <<ErrResp(BAD_INDEX)>>

\* C13: the subscription set always holds only in-range indices of direction
\* OUT, and serving a SUBSCRIBE for an out-of-range index or for a signal of
\* direction IN puts an ERR on the response queue and leaves the set as it was.
C13_SubscriptionsOnlyOutputs ==
  /\ [](\A i \in g_subs : i \in SigIdx /\ SigDir(i) = "OUT")
  /\ [][(/\ Serving
          /\ ServedReq.op = "SUBSCRIBE"
          /\ (ServedReq.idx >= NumSignals \/ SigDir(ServedReq.idx) # "OUT"))
           => /\ g_subs' = g_subs
              /\ g_resp' \in {Append(g_resp, ErrResp(BAD_INDEX)),
                               Append(g_resp, ErrResp(WRONG_DIRECTION))}
     ]_vars

\* C13, the case: with signal 0 subscribed, the poll loop is taking a
\* SUBSCRIBE for the input signal off the request queue.
C13_Witness ==
  /\ g_sim = "get"
  /\ g_subs = {0}
  /\ g_req # <<>>
  /\ Head(g_req) = [op |-> "SUBSCRIBE", idx |-> 1, val |-> 0]

\* C14: serving a request whose opcode is none of the five puts exactly
\* ERR(BAD_OPCODE) on the response queue, and the worker that sends that
\* answer on an open connection leaves the connection open and goes back to
\* the top of its serving loop, from where it drains and reads again.
C14_BadOpcodeKeepsConnection ==
  [][/\ (Serving /\ ServedReq.op = "BADOP")
          => g_resp' = Append(g_resp, ErrResp(BAD_OPCODE))
     /\ (g_rt = "hc_send" /\ g_rt' # g_rt /\ g_wres = ErrResp(BAD_OPCODE)
           /\ g_conn = "open")
          => (g_rt' = "hc_loop" /\ g_conn' = "open" /\ g_cid' = g_cid)
     /\ (g_rt = "hc_loop" /\ g_rt' # g_rt /\ g_running) => g_rt' = "hc_drain"
     /\ (g_rt = "hc_drain" /\ g_rt' # g_rt) => g_rt' = "hc_recv"
  ]_vars

\* C14, the case: the worker holds the ERR(BAD_OPCODE) answer and is about to
\* send it on a connection its client keeps open.
C14_Witness ==
  /\ g_rt = "hc_send"
  /\ g_wres = ErrResp(BAD_OPCODE)
  /\ g_conn = "open"

\* C15: serving a request that is answered with ERR changes neither the
\* subscription set, nor the last-value cache, nor the notification queue,
\* nor any signal value; and the worker that sends an ERR on an open
\* connection keeps the connection and goes back to the top of its loop.
C15_ErrChangesNothing ==
  [][/\ (Serving /\ g_resp'[Len(g_resp')].t = "ERR")
          => /\ g_subs' = g_subs
             /\ g_last' = g_last
             /\ g_notify' = g_notify
             /\ g_sig' = g_sig
             /\ g_resp'[Len(g_resp')].val \in {BAD_INDEX, WRONG_DIRECTION, BAD_OPCODE}
     /\ (g_rt = "hc_send" /\ g_rt' # g_rt /\ g_wres.t = "ERR" /\ g_conn = "open")
          => (g_rt' = "hc_loop" /\ g_conn' = "open")
  ]_vars

\* C15, the case: with signal 0 subscribed, its value 1 cached and a
\* VALUE(0, 1) waiting on the notification queue, a request has just been
\* answered with ERR.
C15_Witness ==
  /\ g_sim = "sample"
  /\ g_resp = <<ErrResp(BAD_OPCODE)>>
  /\ g_subs = {0}
  /\ g_last[0] = 1
  /\ g_notify = <<Notification(0, 1)>>

\* ====================================================== claims, QemuBridge, II
\* A receive of the memory worker that times out with no byte read: the flag is
\* up, the peer has sent nothing and has not closed.
QTimeout ==
  /\ q_rt = "hc_recv"
  /\ q_rt' # q_rt
  /\ q_running
  /\ q_sock = <<>>
  /\ q_conn = "open"

\* C16: idle_timeouts is the number of timeouts in a row since the last
\* complete frame (0 after a frame, one more after each timeout, counted up to
\* three); a timeout ends the session exactly when it is at least the third in
\* a row and a frame has been received on the connection; with no frame
\* received a timeout never ends the session.
C16_IdleTeardown ==
  [][/\ QTimeout
          => /\ q_idle' = IF q_idle < 3 THEN q_idle + 1 ELSE 3
             /\ q_msg_count' = q_msg_count
             /\ (q_rt' = "hc_close") <=> (q_msg_count > 0 /\ q_idle + 1 >= 3)
             /\ q_rt' \in {"hc_close", "hc_loop"}
             /\ q_msg_count = 0 => q_rt' = "hc_loop"
     /\ (q_rt = "hc_recv" /\ q_rt' # q_rt /\ q_running /\ q_sock # <<>>)
          => q_idle' = 0
     /\ (q_rt = "accept" /\ q_rt' = "hc_loop")
          => (q_idle' = 0 /\ q_msg_count' = 0)
     /\ (q_idle' # q_idle) => q_rt \in {"hc_recv", "accept"}
     /\ (q_msg_count' # q_msg_count)
          => \/ q_rt = "accept"
             \/ q_rt = "hc_recv" /\ q_rt' = "hc_wait" /\ q_msg_count' = q_msg_count + 1
  ]_vars

\* C16, the case: one frame has been served, three timeouts in a row have
\* followed, and the worker is leaving the session though the peer is there.
C16_Witness ==
  /\ q_rt = "hc_close"
  /\ q_msg_count = 1
  /\ q_idle = 3
  /\ q_conn = "open"
  /\ q_running
  /\ Len(q_sent) = 1

\* C17: the memory worker accepts at most one connection in a run; and once
\* _handle_client has returned, the flag is down, the poll loop has exited and
\* the listening socket is closed, in the end and from then on.
C17_SingleShot ==
  /\ [](q_accepts <= 1)
  /\ (q_rt = "post_flag")
       ~> [](~q_running /\ q_sim = "exit" /\ q_server = "closed")

\* C17, the case: the first session has ended with no stop() call, the bridge
\* has shut down, and a second client that connected meanwhile was never
\* accepted.
C17_Witness ==
  /\ q_accepts = 1
  /\ q_nconn = 2
  /\ q_pending = 1
  /\ q_stops = 0
  /\ q_rt = "dead"
  /\ q_sim = "exit"
  /\ q_server = "closed"

\* ====================================================== claims, GpioBridge, II
\* C18: as long as stop() has not been called, the started signal bridge has
\* its flag up, its poll loop inside the loop, its worker thread alive and its
\* listening socket not closed, whatever the clients do; and a client that
\* waits in the backlog while no connection is open is accepted in the end.
C18_Persistent ==
  /\ []((g_stops = 0 /\ g_sim # "init")
          => /\ g_running
             /\ g_sim # "exit"
             /\ g_rt \notin {"finally", "dead"}
             /\ g_server # "closed")
  /\ (g_pending = 1 /\ g_conn # "open") ~> (g_pending = 0 /\ g_conn = "open")

\* C18, the case: a connection has ended, its cleanup has run, and the worker
\* serves a later connection with the poll loop going.
C18_Witness ==
  /\ g_cid = 2
  /\ g_conn = "open"
  /\ g_rt = "hc_recv"
  /\ g_running
  /\ g_sim = "timer"

\* ====================================================== claims, QemuBridge, III
\* C19: whenever the memory worker has closed its client connection, whatever
\* ended the session, the flag goes down and the poll loop exits in the end.
C19_EveryFaultStopsBridge ==
  (q_conn = "closed") ~> (~q_running /\ q_sim = "exit")

\* C20: once a stop() call on the memory bridge has returned, the poll loop
\* exits and the worker thread ends in the end.
C20_StopTerminatesAll ==
  (q_stops > 0 /\ q_stop = "idle") ~> (q_sim = "exit" /\ q_rt = "dead")

\* C21: on the started memory bridge, in whatever state it is, stop() called
\* twice in a row leaves the flag, the request queue and the listening socket
\* as stop() called once leaves them.
C21_StopIdempotent ==
  q_sim # "init"
    => LET b == [running |-> q_running, req |-> q_req, server |-> q_server]
       IN QStopEffect(QStopEffect(b)) = QStopEffect(b)

C24_ListStable ==
  [][(Serving /\ ServedReq.op = "LIST")
       => /\ g_resp' = Append(g_resp, [t |-> "LIST_RESP", idx |-> 2, val |-> 0])
          /\ GListEntries =
               << [name |-> "gpio_out", width |-> SigWidth(0), direction |-> "OUT"],
                  [name |-> "gpio_in", width |-> SigWidth(1), direction |-> "IN"] >>
  ]_vars

\* C24, the case: after a SUBSCRIBE and a SET have been served in the
\* session, a LIST has just been answered.
C24_Witness ==
  /\ g_sim = "sample"
  /\ Len(g_resp) = 1
  /\ g_resp[1].t = "LIST_RESP"
  /\ g_subs = {0}
  /\ g_sig[1] = 1
  /\ g_cid = 1

\* C25: a notification that waits on the notification queue while the
\* connection is open is taken off the queue and sent, or the connection is
\* no longer open, in the end.
C25_NotificationsNotDelayed ==
  (g_notify # <<>> /\ g_conn = "open") ~> (g_notify = <<>> \/ g_conn # "open")

\* C26: the step that puts a response on the response queue of the signal
\* bridge leaves the poll loop past the sampler run of that iteration: the
\* sampler is neither about to run nor in the middle of its signals.
C26_SampledBeforeResponse ==
  [][(Len(g_resp') > Len(g_resp))
       => g_sim' \notin {"sample", "s_read", "s_store", "s_store_n", "s_put"}
  ]_vars

\* C27: the drain sends no notification on a connection whose client has a
\* request on its way: sent, and not yet read by the worker.  The client takes
\* the next message it reads for the reply to that request.
C27_ReplyIsResponse ==
  [][(g_rt = "hc_drain" /\ g_conn = "open"
        /\ g_notify # <<>> /\ g_notify' = Tail(g_notify))
       => g_sock = <<>>
  ]_vars

\* ====================================================== claims, QemuBridge, IV
\* C28: the poll loop leaves a device operation it has begun only by putting
\* that operation's result on the response queue and going back to its flag
\* test; it has no operation in progress when it has exited; and a begun
\* operation is left in the end, stop() or no stop().
C28_NeverCancelled ==
  /\ [][(q_sim = "axi" /\ q_sim' # q_sim)
          => /\ q_sim' = "loop"
             /\ q_resp' = Append(q_resp, [val |-> AxiResult(q_cur, q_reg), id |-> q_cur.id])
             /\ q_inflight' = {}
     ]_vars
  /\ [](q_sim = "exit" => q_inflight = {})
  /\ (q_sim = "axi") ~> (q_sim = "loop")

\* C28, the case: stop() has taken the flag down while the device operation
\* was in progress, and the operation has completed and its result is on the
\* response queue.
C28_Witness ==
  /\ q_sim = "loop"
  /\ ~q_running
  /\ q_stops = 1
  /\ q_rt = "hc_wait"
  /\ Len(q_resp) = 1
  /\ q_resp[1].id = q_wreq.id

\* C29: a receive timeout with nothing buffered makes _recv_exact return b"";
\* a timeout with 1..17 bytes buffered keeps the buffer, returns nothing and
\* goes back to the loop, and leaves idle_timeouts alone; idle_timeouts grows
\* only on a b"" return; while the read is on, the messages returned so far
\* followed by the buffer are the bytes received, in order; and a message
\* returned is 18 bytes long and is the bytes received since the one before.
C29_NoPartialDiscard ==
  /\ [][(r_pc = "recv" /\ r_pc' # r_pc /\ r_ev' = "timeout")
          => IF Len(r_buf) = 0
               THEN r_pc' = "ret" /\ r_ret' = [kind |-> "empty", data |-> <<>>]
               ELSE /\ Len(r_buf) \in 1..(HDR_SIZE - 1)
                    /\ r_buf' = r_buf
                    /\ r_pc' = "loop"
                    /\ r_ret' = r_ret
                    /\ r_idle' = r_idle
     ]_vars
  /\ [][(r_idle' > r_idle) => (r_ret.kind = "empty" /\ r_buf = <<>>)]_vars
  /\ [](r_pc \in {"loop", "recv"} => r_done \o r_buf = r_rcvd)
  /\ []((r_pc = "ret" /\ r_ret.kind = "bytes")
          => /\ Len(r_ret.data) = HDR_SIZE
             /\ r_done \o r_ret.data = r_rcvd)

\* C29, the case: the second message is one byte short when a receive times
\* out, and the buffer is still there.
C29_Witness ==
  /\ r_pc = "loop"
  /\ r_ev = "timeout"
  /\ Len(r_buf) = HDR_SIZE - 1
  /\ r_msg_count = 1
  /\ r_idle = 0

\* =========================================================== claims, GpioBridge, IV
\* C30: for every width and every value a signal of that width can hold, the
\* bridge packs a VALUE message for a GET and for a change, and the client
\* decodes that message to the signal's index and the same value.
C30_ValueRoundTrip ==
  (p_fn \in {"get", "notify"} /\ p_out.stage # "start")
    => /\ p_out.stage \in {"sent", "read"}
       /\ Len(p_out.msg) = 6
       /\ p_out.stage = "read" => (p_out.idx = p_in.idx /\ p_out.val = p_in.v)

\* C31: every index with a cached last value is in the subscription set, in
\* every state but those between the two statements of the listener's cleanup.
C31_CacheWithinSubscriptions ==
  g_rt # "clr_last" => {i \in SigIdx : g_last[i] # Absent} \subseteq g_subs

\* C32: while an index stays subscribed, its cached value changes only in the
\* sampler's step for a changed value of that index, which caches the value
\* read and goes on to queue VALUE(idx, that value).
C32_NoSilentCacheChange ==
  [][\A i \in SigIdx :
       (i \in g_subs /\ i \in g_subs' /\ g_last'[i] # g_last[i])
         => /\ g_sim = "s_store_n"
            /\ g_sim' = "s_put"
            /\ Head(g_todo) = i
            /\ g_last'[i] = g_cur
            /\ <<g_todo, g_cur>>' = <<g_todo, g_cur>>
  ]_vars

\* C33: UNSUB of a valid index is answered ACK and takes the index, and no
\* other, out of the subscription set and the cache; and the drain sends no
\* notification for an index that this connection's client has subscribed and
\* that is subscribed no more (the worker is at its drain only when every
\* request it has taken has been answered, the UNSUB's ACK included).
C33_SilentAfterUnsub ==
  /\ [][(Serving /\ ServedReq.op = "UNSUB" /\ ServedReq.idx \in SigIdx)
          => /\ g_resp' = Append(g_resp, [t |-> "ACK", idx |-> 0, val |-> 0])
             /\ g_subs' = g_subs \ {ServedReq.idx}
             /\ g_last' = [g_last EXCEPT ![ServedReq.idx] = Absent]
     ]_vars
  /\ [][(g_rt = "hc_drain" /\ g_conn = "open"
           /\ g_notify # <<>> /\ g_notify' = Tail(g_notify)
           /\ Head(g_notify).idx \in g_subbed)
          => Head(g_notify).idx \in g_subs
     ]_vars

\* ====================================================== claims, both bridges
\* C34: while a memory operation is in progress, the signal bridge serves no
\* request that reads or writes a signal, and its sampler reads none.
C34_OneDeviceOperation ==
  [][(\/ Serving /\ GErrCode(ServedReq) = 0
                 /\ ServedReq.op \in {"GET", "SET", "SUBSCRIBE"}
      \/ g_sim = "s_read" /\ <<g_sim, g_todo>>' # <<g_sim, g_todo>>)
       => q_sim # "axi"
  ]_vars
====
